---- MODULE Spec2Model ----
(***************************************************************************)
(* Model of the transcript worker of browerscan/elongoat:                  *)
(*   src/backend/workers/fetch_transcripts.py                              *)
(* The store is a set of rows of elongoat.youtube_transcripts, the engine  *)
(* is fetch_transcript_with_retry (one action per branch of its loop), the *)
(* orchestrator is main().                                                 *)
(*                                                                         *)
(* Texts are sequences of one-character strings, so that " ".join and      *)
(* str.strip are computed.  A nullable value is <<>> (None / NULL) or      *)
(* <<x>> (the value x).                                                    *)
(***************************************************************************)
EXTENDS Integers, Sequences, FiniteSets, TLC

\* ------------------------------------------------------------------ bounds

\* Number of catalog rows (elongoat.youtube_videos).
NumVideos == 2

\* Largest TRANSCRIPT_MAX_RETRIES tried (the smallest is -1).
MaxRetriesBound == 3

\* Number of upsert_transcript calls in SpecUpsert.
MaxWrites == 3

\* --------------------------------------------------------- nullable values

NULL == <<>>

Some(x) == <<x>>

\* SQL COALESCE(a, b)
COALESCE(a, b) == IF a # NULL THEN a ELSE b

\* Python: x or default, for an Optional[str] x (None and "" are falsy)
OrElse(x, default) == IF x = NULL \/ x = Some("") THEN Some(default) ELSE x

\* -------------------------------------------------------------------- text

\* str.strip() strips these
Whitespace == {" ", "\t", "\n", "\r"}

RECURSIVE LStrip(_)
LStrip(s) == IF s # <<>> /\ Head(s) \in Whitespace THEN LStrip(Tail(s)) ELSE s

RECURSIVE RStrip(_)
RStrip(s) ==
    IF s # <<>> /\ s[Len(s)] \in Whitespace THEN RStrip(SubSeq(s, 1, Len(s) - 1)) ELSE s

Strip(s) == RStrip(LStrip(s))

\* sep.join(parts)
RECURSIVE Join(_, _)
Join(sep, parts) ==
    IF parts = <<>> THEN <<>>
    ELSE IF Len(parts) = 1 THEN parts[1]
    ELSE parts[1] \o sep \o Join(sep, Tail(parts))

\* seg.get("text", "")
SegText(seg) == IF "text" \in DOMAIN seg THEN seg.text ELSE <<>>

\* [f(seg) for seg in transcript]
RECURSIVE SegTexts(_)
SegTexts(transcript) ==
    IF transcript = <<>> THEN <<>> ELSE <<SegText(Head(transcript))>> \o SegTexts(Tail(transcript))

\* ------------------------------------------------------------- the domain

FetchStatus == {"success", "disabled", "not_found", "unavailable", "rate_limited", "error"}

VideoNames == <<"v1", "v2", "v3", "v4", "v5">>

VideoIds == {VideoNames[k] : k \in 1..NumVideos}

\* elongoat.youtube_videos: scraped_at is distinct per row and not in id order
Catalog == {[video_id |-> VideoNames[k], scraped_at |-> (2 * k) % 5] : k \in 1..NumVideos}

Segment(text) == [text |-> text, start |-> 0, duration |-> 2]

\* What fetched.to_raw_data() can be: no segment, "hi", " a" + "b ", a blank segment
Transcripts ==
    { <<>>,
      <<Segment(<<"h", "i">>)>>,
      <<Segment(<<" ", "a">>), Segment(<<"b", " ">>)>>,
      <<Segment(<<" ">>)>> }

LanguageCodes == {"en", "es"}

\* str(e) of a provider exception
Msgs == {"e1", "e2"}

NotFoundErrors ==
    {"NoTranscriptFound", "NoTranscriptAvailable", "NotTranslatable", "TranslationLanguageNotAvailable"}

TransientErrors == {"TooManyRequests", "Exception"}

StructuralErrors == {"TranscriptsDisabled", "VideoUnavailable"} \cup NotFoundErrors

FetchResult(video_id, status, language, transcript, error_message) ==
    [video_id |-> video_id, status |-> status, language |-> language,
     transcript |-> transcript, error_message |-> error_message]

NoResult == FetchResult("", "", NULL, NULL, NULL)

\* ------------------------------------------------------------------- store

\* A row of elongoat.youtube_transcripts
Row(video_id, language, transcript_text, transcript_json, fetch_status, error_message, fetch_attempts, fetched_at) ==
    [video_id |-> video_id, language |-> language, transcript_text |-> transcript_text,
     transcript_json |-> transcript_json, fetch_status |-> fetch_status,
     error_message |-> error_message, fetch_attempts |-> fetch_attempts,
     fetched_at |-> fetched_at]

RowsOf(rows, video_id) == {t \in rows : t.video_id = video_id}

\* Python truthiness of an Optional[List]: None and [] are falsy
Truthy(transcript) == transcript # NULL /\ transcript[1] # <<>>

\* psycopg2 Json(obj): the adapted value holds the list as it is
Json(obj) == obj

\* Faulty variant: " ".join(...) without .strip()
TranscriptTextUnstripped(transcript) ==
    IF Truthy(transcript) THEN Some(Join(<<" ">>, SegTexts(transcript[1]))) ELSE NULL

\* transcript_text of upsert_transcript
TranscriptText(transcript) ==
    IF Truthy(transcript) THEN Some(Strip(Join(<<" ">>, SegTexts(transcript[1])))) ELSE NULL

\* Faulty variant: Json(transcript) if transcript is not None else None
TranscriptJsonNotNone(transcript) ==
    IF transcript # NULL THEN Some(Json(transcript[1])) ELSE NULL

\* the transcript_json parameter of upsert_transcript
TranscriptJson(transcript) ==
    IF Truthy(transcript) THEN Some(Json(transcript[1])) ELSE NULL

\* Faulty variant: transcript_text = EXCLUDED.transcript_text, and so for transcript_json
OnConflictOverwrite(t, excluded, now) ==
    Row(t.video_id, excluded.language, excluded.transcript_text, excluded.transcript_json,
        excluded.fetch_status, excluded.error_message, t.fetch_attempts + 1, now)

\* Faulty variant: fetch_attempts = EXCLUDED.fetch_attempts
OnConflictResetAttempts(t, excluded, now) ==
    Row(t.video_id, excluded.language,
        COALESCE(excluded.transcript_text, t.transcript_text),
        COALESCE(excluded.transcript_json, t.transcript_json),
        excluded.fetch_status, excluded.error_message, excluded.fetch_attempts, now)

\* Faulty variant: language and error_message are kept when the new value is NULL
OnConflictCoalesceAll(t, excluded, now) ==
    Row(t.video_id, COALESCE(excluded.language, t.language),
        COALESCE(excluded.transcript_text, t.transcript_text),
        COALESCE(excluded.transcript_json, t.transcript_json),
        excluded.fetch_status, COALESCE(excluded.error_message, t.error_message),
        t.fetch_attempts + 1, now)

\* Faulty variant: the new text is appended to the stored one
OnConflictAppendText(t, excluded, now) ==
    Row(t.video_id, excluded.language,
        IF excluded.transcript_text # NULL /\ t.transcript_text # NULL
        THEN Some(t.transcript_text[1] \o <<" ">> \o excluded.transcript_text[1])
        ELSE COALESCE(excluded.transcript_text, t.transcript_text),
        COALESCE(excluded.transcript_json, t.transcript_json),
        excluded.fetch_status, excluded.error_message, t.fetch_attempts + 1, now)

\* ON CONFLICT (video_id) DO UPDATE SET ...: t is the stored row, excluded the proposed one
OnConflictUpdate(t, excluded, now) ==
    Row(t.video_id,
        excluded.language,
        COALESCE(excluded.transcript_text, t.transcript_text),
        COALESCE(excluded.transcript_json, t.transcript_json),
        excluded.fetch_status,
        excluded.error_message,
        t.fetch_attempts + 1,
        now)

\* The rows after the INSERT ... ON CONFLICT statement; now is NOW()
upsert_transcript(rows, video_id, language, transcript, status, error_message, attempt_count, now) ==
    LET excluded == Row(video_id, language, TranscriptText(transcript), TranscriptJson(transcript),
                        status, error_message, attempt_count, now)
        conflict == RowsOf(rows, video_id)
    IN  IF conflict = {} THEN rows \cup {excluded}
        ELSE (rows \ conflict) \cup {OnConflictUpdate(t, excluded, now) : t \in conflict}

\* ORDER BY v.scraped_at DESC over a set of catalog rows (scraped_at is distinct)
RECURSIVE OrderByScrapedAtDesc(_)
OrderByScrapedAtDesc(S) ==
    IF S = {} THEN <<>>
    ELSE LET top == CHOOSE x \in S : \A y \in S : y.scraped_at <= x.scraped_at
         IN  <<top>> \o OrderByScrapedAtDesc(S \ {top})

\* SQL LIMIT n
Limit(seq, n) == SubSeq(seq, 1, IF n < Len(seq) THEN n ELSE Len(seq))

\* Faulty variant: the WHERE t.video_id IS NULL is missing
fetch_all_video_ids(rows, limit) ==
    LET ordered == Limit(OrderByScrapedAtDesc(Catalog), limit)
    IN  [k \in 1..Len(ordered) |-> ordered[k].video_id]

\* Faulty variant: ORDER BY v.scraped_at ASC
fetch_pending_oldest_first(rows, limit) ==
    LET pending == {v \in Catalog : RowsOf(rows, v.video_id) = {}}
        newest == OrderByScrapedAtDesc(pending)
        ordered == Limit([k \in 1..Len(newest) |-> newest[Len(newest) + 1 - k]], limit)
    IN  [k \in 1..Len(ordered) |-> ordered[k].video_id]

\* SELECT v.video_id ... LEFT JOIN ... WHERE t.video_id IS NULL ORDER BY v.scraped_at DESC LIMIT %s
fetch_pending_video_ids(rows, limit) ==
    LET pending == {v \in Catalog : RowsOf(rows, v.video_id) = {}}
        ordered == Limit(OrderByScrapedAtDesc(pending), limit)
    IN  [k \in 1..Len(ordered) |-> ordered[k].video_id]

\* ORDER BY t.fetched_at ASC over a set of transcript rows (one NOW() per write, so
\* fetched_at is distinct)
RECURSIVE OrderByFetchedAtAsc(_)
OrderByFetchedAtAsc(S) ==
    IF S = {} THEN <<>>
    ELSE LET first == CHOOSE x \in S : \A y \in S : x.fetched_at <= y.fetched_at
         IN  <<first>> \o OrderByFetchedAtAsc(S \ {first})

\* max_attempts: int = 3
DefaultMaxAttempts == 3

\* Faulty variant: no status is excluded
RetryEligibleAnyStatus(t, max_attempts) ==
    /\ t.transcript_text = NULL
    /\ t.fetch_attempts < max_attempts

\* Faulty variant: rows that hold a transcript are eligible too
RetryEligibleIgnoresText(t, max_attempts) ==
    /\ t.fetch_status \notin {"disabled", "unavailable"}
    /\ t.fetch_attempts < max_attempts

\* Faulty variant: not_found is excluded with disabled and unavailable
RetryEligibleNoNotFound(t, max_attempts) ==
    /\ t.transcript_text = NULL
    /\ t.fetch_status \notin {"disabled", "unavailable", "not_found"}
    /\ t.fetch_attempts < max_attempts

\* Faulty variant: the ceiling is inclusive
RetryEligibleUpToCeiling(t, max_attempts) ==
    /\ t.transcript_text = NULL
    /\ t.fetch_status \notin {"disabled", "unavailable"}
    /\ t.fetch_attempts <= max_attempts

\* The WHERE clause of fetch_failed_video_ids (upsert_transcript always stores a
\* fetch_attempts, so COALESCE(t.fetch_attempts, 1) is the stored value)
RetryEligible(t, max_attempts) ==
    /\ t.transcript_text = NULL
    /\ t.fetch_status \notin {"disabled", "unavailable"}
    /\ t.fetch_attempts < max_attempts

\* SELECT t.video_id, COALESCE(t.fetch_attempts, 1) ... WHERE ... ORDER BY t.fetched_at ASC
\* LIMIT %s: the list of (video_id, attempts)
fetch_failed_video_ids(rows, limit, max_attempts) ==
    LET failed == {t \in rows : RetryEligible(t, max_attempts)}
        ordered == Limit(OrderByFetchedAtAsc(failed), limit)
    IN  [k \in 1..Len(ordered) |-> <<ordered[k].video_id, ordered[k].fetch_attempts>>]

\* ------------------------------------------------------------------- state

VARIABLES
    cfg,         \* main's configuration: batch_limit, sleep_seconds, max_retries, retry_delay
    pc,          \* where main is: "select", "fetch", "persist", "commit", "summary", or how
                 \* the process ended: "done" (exit 0), "exit1" (sys.exit(1)), "killed";
                 \* "upsert" and "queried" where only the store's functions are called
    video_ids,   \* main's video_ids
    i,           \* main's loop counter (enumerate from 1)
    attempt,     \* the engine's loop variable
    last_error,  \* the engine's last_error
    log,         \* history: the provider calls and the sleeps of the running engine call
    result,      \* the FetchResult the engine returned
    stats,       \* main's stats
    db,          \* the rows the connection sees (committed and uncommitted)
    store,       \* the committed rows
    writes,      \* history: the number of upsert_transcript calls per video id
    clock,       \* NOW(), a logical clock
    fatal,       \* the exception that reached the top level (line 368), or NULL
    hist         \* history: what the running worker process has done, in order

vars == <<cfg, pc, video_ids, i, attempt, last_error, log, result, stats, db, store, writes, clock, fatal, hist>>

engine == <<attempt, last_error, log, result>>

\* TRANSCRIPT_MAX_RETRIES: any integer; 3 is the default
MaxRetriesValues == (-1)..MaxRetriesBound

\* TRANSCRIPT_RETRY_DELAY, in seconds (2.0 is the default).  The delays are taken
\* non-negative: time.sleep raises ValueError on a negative length.
RetryDelayValues == {1, 2}

\* TRANSCRIPT_SLEEP_SECONDS, in seconds (1.0 is the default)
SleepSecondsValues == {0, 1}

\* TRANSCRIPT_BATCH_LIMIT: one that truncates and one above the catalog's size
BatchLimitValues == {1, NumVideos + 1}

Configs ==
    [batch_limit : BatchLimitValues, sleep_seconds : SleepSecondsValues,
     max_retries : MaxRetriesValues, retry_delay : RetryDelayValues]

\* The configurations of whole runs: the defaults, with the batch limit and the number
\* of retries varied (0: the engine makes no call)
RunConfigs ==
    [batch_limit : BatchLimitValues, sleep_seconds : {1}, max_retries : {0, 1, 3}, retry_delay : {2}]

ZeroStats == [s \in FetchStatus |-> 0]

Init ==
    /\ cfg \in RunConfigs
    /\ pc = "select"
    /\ video_ids = <<>>
    /\ i = 0
    /\ attempt = 0
    /\ last_error = NULL
    /\ log = <<>>
    /\ result = NoResult
    /\ stats = ZeroStats
    /\ db = {}
    /\ store = {}
    /\ writes = [v \in VideoIds |-> 0]
    /\ clock = 0
    /\ fatal = NULL
    /\ hist = <<>>

\* ------------------------------------------ engine: fetch_transcript_with_retry

CallRaised(k, cls, msg) ==
    [ev |-> "call", attempt |-> k, outcome |-> cls, msg |-> Some(msg), language |-> NULL, segments |-> NULL]

CallReturned(k, language_code, segments) ==
    [ev |-> "call", attempt |-> k, outcome |-> "ok", msg |-> NULL,
     language |-> Some(language_code), segments |-> Some(segments)]

Slept(kind, seconds) == [ev |-> "sleep", kind |-> kind, seconds |-> seconds]

\* Faulty variant: the exponent counts attempts from 1
BackoffDelayOneBased(retry_delay, k) == retry_delay * 2^(k + 1)

\* delay = retry_delay * (2 ** attempt)
BackoffDelay(retry_delay, k) == retry_delay * 2^k

\* Entering the engine: last_error = None, the loop at its first index
EnterEngine ==
    /\ attempt' = 0
    /\ last_error' = NULL
    /\ log' = <<>>
    /\ result' = NoResult

\* Faulty variant: for attempt in range(max_retries + 1)
InLoopOneMore == pc = "fetch" /\ attempt <= cfg.max_retries

\* The loop body runs for attempt in range(max_retries)
InLoop == pc = "fetch" /\ attempt < cfg.max_retries

\* return FetchResult(...) out of the engine
Return(r, events) ==
    /\ result' = r
    /\ log' = log \o events
    /\ pc' = "persist"
    /\ UNCHANGED <<attempt, last_error>>

\* Faulty variant: the result of a success carries the last error of the failed attempts
AttemptSuccessKeepsError ==
    /\ InLoop
    /\ \E language_code \in LanguageCodes, transcript \in Transcripts :
          Return(FetchResult(video_ids[i], "success", Some(language_code), Some(transcript), last_error),
                 <<CallReturned(attempt, language_code, transcript), Slept("pacing", cfg.sleep_seconds)>>)
    /\ UNCHANGED <<cfg, video_ids, i, stats, db, store, writes, clock, fatal, hist>>

\* api.fetch returns; sleep(sleep_seconds); return SUCCESS
AttemptSuccess ==
    /\ InLoop
    /\ \E language_code \in LanguageCodes, transcript \in Transcripts :
          Return(FetchResult(video_ids[i], "success", Some(language_code), Some(transcript), NULL),
                 <<CallReturned(attempt, language_code, transcript), Slept("pacing", cfg.sleep_seconds)>>)
    /\ UNCHANGED <<cfg, video_ids, i, stats, db, store, writes, clock, fatal, hist>>

\* Faulty variant: last_error is set by the first failure only
TransientKeepsFirstError(cls, status) ==
    \E msg \in Msgs :
       /\ last_error' = IF last_error = NULL THEN Some(msg) ELSE last_error
       /\ IF attempt < cfg.max_retries - 1
          THEN /\ log' = log \o <<CallRaised(attempt, cls, msg),
                                  Slept("backoff", BackoffDelay(cfg.retry_delay, attempt))>>
               /\ attempt' = attempt + 1
               /\ UNCHANGED <<result, pc>>
          ELSE /\ result' = FetchResult(video_ids[i], status, NULL, NULL, last_error')
               /\ log' = log \o <<CallRaised(attempt, cls, msg)>>
               /\ pc' = "persist"
               /\ UNCHANGED attempt

\* The two retrying handlers: last_error = str(e); sleep and go on, or return on the last attempt
Transient(cls, status) ==
    \E msg \in Msgs :
       /\ last_error' = Some(msg)
       /\ IF attempt < cfg.max_retries - 1
          THEN /\ log' = log \o <<CallRaised(attempt, cls, msg),
                                  Slept("backoff", BackoffDelay(cfg.retry_delay, attempt))>>
               /\ attempt' = attempt + 1
               /\ UNCHANGED <<result, pc>>
          ELSE /\ result' = FetchResult(video_ids[i], status, NULL, NULL, last_error')
               /\ log' = log \o <<CallRaised(attempt, cls, msg)>>
               /\ pc' = "persist"
               /\ UNCHANGED attempt

\* Faulty variant: TranscriptsDisabled handled as a transient condition
AttemptDisabledRetried ==
    /\ InLoop
    /\ Transient("TranscriptsDisabled", "disabled")
    /\ UNCHANGED <<cfg, video_ids, i, stats, db, store, writes, clock, fatal, hist>>

\* except TranscriptsDisabled
AttemptDisabled ==
    /\ InLoop
    /\ \E msg \in Msgs :
          Return(FetchResult(video_ids[i], "disabled", NULL, NULL, Some(msg)),
                 <<CallRaised(attempt, "TranscriptsDisabled", msg)>>)
    /\ UNCHANGED <<cfg, video_ids, i, stats, db, store, writes, clock, fatal, hist>>

\* except (NoTranscriptFound, NoTranscriptAvailable, NotTranslatable, TranslationLanguageNotAvailable)
AttemptNotFound ==
    /\ InLoop
    /\ \E cls \in NotFoundErrors, msg \in Msgs :
          Return(FetchResult(video_ids[i], "not_found", NULL, NULL, Some(msg)),
                 <<CallRaised(attempt, cls, msg)>>)
    /\ UNCHANGED <<cfg, video_ids, i, stats, db, store, writes, clock, fatal, hist>>

\* except VideoUnavailable
AttemptUnavailable ==
    /\ InLoop
    /\ \E msg \in Msgs :
          Return(FetchResult(video_ids[i], "unavailable", NULL, NULL, Some(msg)),
                 <<CallRaised(attempt, "VideoUnavailable", msg)>>)
    /\ UNCHANGED <<cfg, video_ids, i, stats, db, store, writes, clock, fatal, hist>>

\* except TooManyRequests
AttemptRateLimited ==
    /\ InLoop
    /\ Transient("TooManyRequests", "rate_limited")
    /\ UNCHANGED <<cfg, video_ids, i, stats, db, store, writes, clock, fatal, hist>>

\* Faulty variant: no except Exception clause, the exception leaves the engine and main
AttemptErrorEscapes ==
    /\ InLoop
    /\ \E msg \in Msgs :
          /\ log' = log \o <<CallRaised(attempt, "Exception", msg)>>
          /\ fatal' = Some(msg)
    /\ pc' = "exit1"
    /\ UNCHANGED <<cfg, video_ids, i, attempt, last_error, result, stats, db, store, writes, clock, hist>>

\* except Exception
AttemptError ==
    /\ InLoop
    /\ Transient("Exception", "error")
    /\ UNCHANGED <<cfg, video_ids, i, stats, db, store, writes, clock, fatal, hist>>

\* Faulty variant: the fallback text is left out
LoopExhaustedNoText ==
    /\ pc = "fetch"
    /\ ~(attempt < cfg.max_retries)
    /\ Return(FetchResult(video_ids[i], "error", NULL, NULL, last_error), <<>>)
    /\ UNCHANGED <<cfg, video_ids, i, stats, db, store, writes, clock, fatal, hist>>

\* The loop ends without a return: ERROR with last_error or "Unknown error after retries"
LoopExhausted ==
    /\ pc = "fetch"
    /\ ~(attempt < cfg.max_retries)
    /\ Return(FetchResult(video_ids[i], "error", NULL, NULL,
                          OrElse(last_error, "Unknown error after retries")), <<>>)
    /\ UNCHANGED <<cfg, video_ids, i, stats, db, store, writes, clock, fatal, hist>>

\* -------------------------------------------------------- orchestrator: main

\* What the worker process does, as the entries of hist
Selected(ids) == [ev |-> "select", video_ids |-> ids]

Fetched(video_id) == [ev |-> "fetch", video_id |-> video_id]

Written(r) == [ev |-> "write", video_id |-> r.video_id, result |-> r]

Committed(video_id) == [ev |-> "commit", video_id |-> video_id]

Summarised(counts) == [ev |-> "summary", counts |-> counts]

\* for status, count in stats.items(): if count > 0: logger.info(status: count)
SummaryLines(counts) == [s \in {x \in FetchStatus : counts[x] > 0} |-> counts[s]]

\* attempt_count: int = 1, which main never passes
DefaultAttemptCount == 1

\* upsert_transcript(conn, result.video_id, result.language, result.transcript, result.status,
\* result.error_message) on the open transaction
Upsert(r) ==
    /\ db' = upsert_transcript(db, r.video_id, r.language, r.transcript, r.status,
                               r.error_message, DefaultAttemptCount, clock + 1)
    /\ clock' = clock + 1
    /\ writes' = [writes EXCEPT ![r.video_id] = @ + 1]

\* video_ids = fetch_pending_video_ids(conn, batch_limit); return when there is none
Select ==
    /\ pc = "select"
    /\ video_ids' = fetch_pending_video_ids(db, cfg.batch_limit)
    /\ IF video_ids' = <<>>
       THEN /\ pc' = "done" /\ i' = 0 /\ UNCHANGED engine
            /\ hist' = hist \o <<Selected(video_ids')>>
       ELSE /\ pc' = "fetch" /\ i' = 1 /\ EnterEngine
            /\ hist' = hist \o <<Selected(video_ids'), Fetched(video_ids'[1])>>
    /\ UNCHANGED <<cfg, stats, db, store, writes, clock, fatal>>

\* Faulty variant: the connection is in autocommit mode
PersistAutocommit ==
    /\ pc = "persist"
    /\ stats' = [stats EXCEPT ![result.status] = @ + 1]
    /\ Upsert(result)
    /\ store' = db'
    /\ pc' = "commit"
    /\ hist' = hist \o <<Written(result)>>
    /\ UNCHANGED <<cfg, video_ids, i, engine, fatal>>

\* Faulty variant: only a SUCCESS is written
PersistSuccessOnly ==
    /\ pc = "persist"
    /\ stats' = [stats EXCEPT ![result.status] = @ + 1]
    /\ IF result.status = "success"
       THEN Upsert(result) /\ hist' = hist \o <<Written(result)>>
       ELSE UNCHANGED <<db, clock, writes, hist>>
    /\ pc' = "commit"
    /\ UNCHANGED <<cfg, video_ids, i, engine, store, fatal>>

\* stats[result.status.value] += 1; upsert_transcript(...)
Persist ==
    /\ pc = "persist"
    /\ stats' = [stats EXCEPT ![result.status] = @ + 1]
    /\ Upsert(result)
    /\ pc' = "commit"
    /\ hist' = hist \o <<Written(result)>>
    /\ UNCHANGED <<cfg, video_ids, i, engine, store, fatal>>

\* Faulty variant: one conn.commit() after the loop
CommitAfterLoop ==
    /\ pc = "commit"
    /\ store' = IF i < Len(video_ids) THEN store ELSE db
    /\ IF i < Len(video_ids)
       THEN /\ pc' = "fetch" /\ i' = i + 1 /\ EnterEngine
            /\ hist' = hist \o <<Committed(video_ids[i]), Fetched(video_ids[i + 1])>>
       ELSE /\ pc' = "summary" /\ i' = i /\ UNCHANGED engine
            /\ hist' = hist \o <<Committed(video_ids[i])>>
    /\ UNCHANGED <<cfg, video_ids, stats, db, writes, clock, fatal>>

\* Faulty variant: the loop comes back to the identifier it has just committed
CommitSameItemAgain ==
    /\ pc = "commit"
    /\ store' = db
    /\ pc' = "fetch" /\ i' = i /\ EnterEngine
    /\ hist' = hist \o <<Committed(video_ids[i]), Fetched(video_ids[i])>>
    /\ UNCHANGED <<cfg, video_ids, stats, db, writes, clock, fatal>>

\* conn.commit(); the next video_id of the for loop, or the summary after the last
Commit ==
    /\ pc = "commit"
    /\ store' = db
    /\ IF i < Len(video_ids)
       THEN /\ pc' = "fetch" /\ i' = i + 1 /\ EnterEngine
            /\ hist' = hist \o <<Committed(video_ids[i]), Fetched(video_ids[i + 1])>>
       ELSE /\ pc' = "summary" /\ i' = i /\ UNCHANGED engine
            /\ hist' = hist \o <<Committed(video_ids[i])>>
    /\ UNCHANGED <<cfg, video_ids, stats, db, writes, clock, fatal>>

\* The summary is logged, the connection closed, main returns
Summary ==
    /\ pc = "summary"
    /\ pc' = "done"
    /\ hist' = hist \o <<Summarised(SummaryLines(stats))>>
    /\ UNCHANGED <<cfg, video_ids, i, engine, stats, db, store, writes, clock, fatal>>

\* The worker is started again: a new process, a new connection
RunAgain ==
    /\ pc = "done"
    /\ cfg' \in RunConfigs
    /\ pc' = "select"
    /\ video_ids' = <<>>
    /\ i' = 0
    /\ stats' = ZeroStats
    /\ db' = store
    /\ fatal' = NULL
    /\ hist' = <<>>
    /\ EnterEngine
    /\ UNCHANGED <<store, writes, clock>>

Engine ==
    \/ AttemptSuccess
    \/ AttemptDisabled
    \/ AttemptNotFound
    \/ AttemptUnavailable
    \/ AttemptRateLimited
    \/ AttemptError
    \/ LoopExhausted

Next ==
    \/ Select
    \/ Engine
    \/ Persist
    \/ Commit
    \/ Summary
    \/ RunAgain

Spec == Init /\ [][Next]_vars

\* ------------------------------------------- runs that a failure cuts short

\* The configurations of the runs that may fail: the defaults with at most one attempt
\* per identifier (0 and -1: the engine makes no call), the batch limit varied
FailConfigs ==
    [batch_limit : BatchLimitValues, sleep_seconds : {1}, max_retries : {-1, 0, 1}, retry_delay : {2}]

InitFail ==
    /\ cfg \in FailConfigs
    /\ pc = "select"
    /\ video_ids = <<>>
    /\ i = 0
    /\ attempt = 0
    /\ last_error = NULL
    /\ log = <<>>
    /\ result = NoResult
    /\ stats = ZeroStats
    /\ db = {}
    /\ store = {}
    /\ writes = [v \in VideoIds |-> 0]
    /\ clock = 0
    /\ fatal = NULL
    /\ hist = <<>>

\* The process is gone: its locals with it, and the connection's open transaction
ProcessEnds ==
    /\ video_ids' = <<>>
    /\ i' = 0
    /\ stats' = ZeroStats
    /\ EnterEngine
    /\ db' = store
    /\ UNCHANGED <<cfg, store, writes, clock, hist>>

\* A write that is lost moves NOW() on and leaves the rows as they were: such losses
\* are counted up to MaxWrites
MayLoseWrite == clock < MaxWrites

\* The process is killed at any point of main (SIGKILL, power loss): no handler runs,
\* nothing is logged
Kill ==
    /\ pc \in {"select", "fetch", "persist", "commit", "summary"}
    /\ pc = "commit" => MayLoseWrite
    /\ pc' = "killed"
    /\ ProcessEnds
    /\ UNCHANGED fatal

\* except Exception as e: logger.error(f"Fatal error: {e}"); sys.exit(1), after
\* main's finally has closed the connection
FatalError(e) ==
    /\ fatal' = Some(e)
    /\ pc' = "exit1"
    /\ ProcessEnds

\* connect_db() or the SELECT of fetch_pending_video_ids raises
SelectFails ==
    /\ pc = "select"
    /\ FatalError("OperationalError")

\* Faulty variant: the error of the INSERT is logged and the loop goes on
PersistFailsSwallowed ==
    /\ pc = "persist"
    /\ stats' = [stats EXCEPT ![result.status] = @ + 1]
    /\ fatal' = Some("OperationalError")
    /\ pc' = "commit"
    /\ UNCHANGED <<cfg, video_ids, i, engine, db, store, writes, clock, hist>>

\* The INSERT of upsert_transcript raises (stats, already counted, goes with the process)
PersistFails ==
    /\ pc = "persist"
    /\ FatalError("OperationalError")

\* conn.commit() raises: the transaction is not committed
CommitFails ==
    /\ pc = "commit"
    /\ MayLoseWrite
    /\ FatalError("OperationalError")

\* The worker is started again after any end, with the batch limit of that start
Restart ==
    /\ pc \in {"done", "exit1", "killed"}
    /\ cfg' \in FailConfigs
    /\ pc' = "select"
    /\ video_ids' = <<>>
    /\ i' = 0
    /\ stats' = ZeroStats
    /\ db' = store
    /\ fatal' = NULL
    /\ hist' = <<>>
    /\ EnterEngine
    /\ UNCHANGED <<store, writes, clock>>

NextFail ==
    \/ Select
    \/ Engine
    \/ Persist
    \/ Commit
    \/ Summary
    \/ Restart
    \/ Kill
    \/ SelectFails
    \/ PersistFails
    \/ CommitFails

SpecFail == InitFail /\ [][NextFail]_vars

\* ---------------------------------------------------------------- repeated runs

\* The worker is started again and again and neither the store nor the process fails
NextRuns ==
    \/ Select
    \/ Engine
    \/ Persist
    \/ Commit
    \/ Summary
    \/ Restart

SpecRuns == InitFail /\ [][NextRuns]_vars

\* Every statement of main ends (the sleeps and the calls return) and a finished
\* worker is started again by its scheduler
FairSpecRuns == SpecRuns /\ WF_vars(NextRuns)

\* ----------------------------- one call of fetch_transcript_with_retry, any config

\* main has selected one identifier and calls the engine for it
InitEngine ==
    /\ cfg \in Configs
    /\ pc = "fetch"
    /\ video_ids \in {<<v>> : v \in VideoIds}
    /\ i = 1
    /\ attempt = 0
    /\ last_error = NULL
    /\ log = <<>>
    /\ result = NoResult
    /\ stats = ZeroStats
    /\ db = {}
    /\ store = {}
    /\ writes = [v \in VideoIds |-> 0]
    /\ clock = 0
    /\ fatal = NULL
    /\ hist = <<>>

NextEngine == Engine

SpecEngine == InitEngine /\ [][NextEngine]_vars

\* The engine runs in one thread and every provider call returns or raises: a step
\* that can be taken is taken
FairSpecEngine == SpecEngine /\ WF_vars(NextEngine)

\* ------------------------------------ any sequence of writes of engine outcomes

\* Every FetchResult a return statement of fetch_transcript_with_retry builds
Outcomes(video_id) ==
    {FetchResult(video_id, "success", Some(l), Some(t), NULL) : l \in LanguageCodes, t \in Transcripts}
    \cup {FetchResult(video_id, s, NULL, NULL, Some(m)) : s \in FetchStatus \ {"success"}, m \in Msgs}
    \cup {FetchResult(video_id, "error", NULL, NULL, Some("Unknown error after retries"))}

\* The defaults of lines 296-299
DefaultConfig == [batch_limit |-> 25, sleep_seconds |-> 1, max_retries |-> 3, retry_delay |-> 2]

InitUpsert ==
    /\ cfg = DefaultConfig
    /\ pc = "upsert"
    /\ video_ids = <<>>
    /\ i = 0
    /\ attempt = 0
    /\ last_error = NULL
    /\ log = <<>>
    /\ result = NoResult
    /\ stats = ZeroStats
    /\ db = {}
    /\ store = {}
    /\ writes = [v \in VideoIds |-> 0]
    /\ clock = 0
    /\ fatal = NULL
    /\ hist = <<>>

\* One write as main does it (lines 334-342) of any outcome for any video id
UpsertCall ==
    /\ pc = "upsert"
    /\ clock < MaxWrites
    /\ \E v \in VideoIds : \E r \in Outcomes(v) :
          /\ result' = r
          /\ Upsert(r)
    /\ store' = db'
    /\ UNCHANGED <<cfg, pc, video_ids, i, attempt, last_error, log, stats, fatal, hist>>

NextUpsert == UpsertCall

SpecUpsert == InitUpsert /\ [][NextUpsert]_vars

\* ---------------------------------------- the selections, on any stored rows

\* The limits and the ceilings the selections are asked with
QueryLimits == 0..(NumVideos + 1)

QueryCeilings == 0..(MaxWrites + 1)

\* The outcomes as far as a selection can tell them apart: it reads neither the
\* language nor the error message, and of the content only whether there is any
SelectorOutcomes(video_id) ==
    {r \in Outcomes(video_id) :
        /\ r.language \in {NULL, Some("en")}
        /\ r.error_message \in {NULL, Some("e1")}
        /\ r.transcript \in {NULL, Some(<<>>), Some(<<Segment(<<"h", "i">>)>>)}}

\* A call of one of the two selections and what it returned
Queried(fn, limit, max_attempts, rows) ==
    [ev |-> "query", fn |-> fn, limit |-> limit, max_attempts |-> max_attempts, result |-> rows]

\* One committed write of an outcome, as UpsertCall
SelectorWrite ==
    /\ pc = "upsert"
    /\ clock < MaxWrites
    /\ \E v \in VideoIds : \E r \in SelectorOutcomes(v) :
          /\ result' = r
          /\ Upsert(r)
    /\ store' = db'
    /\ UNCHANGED <<cfg, pc, video_ids, i, attempt, last_error, log, stats, fatal, hist>>

\* fetch_pending_video_ids(conn, limit) on the rows written so far
QueryPending ==
    /\ pc = "upsert"
    /\ pc' = "queried"
    /\ \E limit \in QueryLimits :
          hist' = <<Queried("fetch_pending_video_ids", limit, NULL, fetch_pending_video_ids(db, limit))>>
    /\ UNCHANGED <<cfg, video_ids, i, engine, stats, db, store, writes, clock, fatal>>

\* fetch_failed_video_ids(conn, limit, max_attempts) on the rows written so far
QueryFailed ==
    /\ pc = "upsert"
    /\ pc' = "queried"
    /\ \E limit \in QueryLimits, max_attempts \in QueryCeilings :
          hist' = <<Queried("fetch_failed_video_ids", limit, Some(max_attempts),
                            fetch_failed_video_ids(db, limit, max_attempts))>>
    /\ UNCHANGED <<cfg, video_ids, i, engine, stats, db, store, writes, clock, fatal>>

NextSelect ==
    \/ SelectorWrite
    \/ QueryPending
    \/ QueryFailed

SpecSelect == InitUpsert /\ [][NextSelect]_vars

\* ------------------------------------------------------- claims: the store

\* The transcript content of the rows of one video id
ContentOf(rows, video_id) ==
    {<<t.transcript_text, t.transcript_json>> : t \in RowsOf(rows, video_id)}

HasContent(rows, video_id) ==
    \E t \in RowsOf(rows, video_id) : t.transcript_text # NULL \/ t.transcript_json # NULL

\* C1 (coalesce law): a write whose outcome carries no transcript (None or an empty
\* list) to a video id whose row holds non-null transcript_text/transcript_json leaves
\* that row's transcript_text and transcript_json as they were before the write.
C1_CoalesceLaw ==
    [][\A v \in VideoIds :
          (/\ writes'[v] = writes[v] + 1
           /\ ~Truthy(result'.transcript)
           /\ HasContent(store, v))
          => ContentOf(store', v) = ContentOf(store, v)]_vars

\* A failed retry has been written over a stored transcript, which is still there
C1_Witness ==
    \E v \in VideoIds :
       /\ writes[v] >= 2
       /\ result.video_id = v
       /\ result.status \in {"error", "rate_limited"}
       /\ result.transcript = NULL
       /\ \E t \in RowsOf(store, v) :
             t.transcript_text = Some(<<"h", "i">>) /\ t.fetch_status = result.status

\* C2: after N writes of engine outcomes to a video id (attempt_count left at its
\* default, as main calls upsert_transcript) the id has one row and its fetch_attempts
\* is N; with no write it has no row.
C2_AttemptsCountWrites ==
    \A v \in VideoIds :
       IF writes[v] = 0 THEN RowsOf(store, v) = {}
       ELSE \E t \in store : RowsOf(store, v) = {t} /\ t.fetch_attempts = writes[v]

\* Three writes of different kinds to one id
C2_Witness ==
    \E v \in VideoIds : \E t \in RowsOf(store, v) :
       /\ writes[v] = 3
       /\ t.fetch_attempts = 3
       /\ t.fetch_status = "disabled"
       /\ t.transcript_text # NULL

\* C10: in every row, committed or not, transcript_text and transcript_json are both
\* NULL or both non-NULL.
C10_TextAndJsonTogether ==
    \A t \in store \cup db : (t.transcript_text = NULL) <=> (t.transcript_json = NULL)

\* A success with an empty segment list written over a row that holds a transcript
C10_Witness ==
    \E v \in VideoIds : \E t \in RowsOf(store, v) :
       /\ writes[v] = 3
       /\ result.video_id = v
       /\ result.status = "success"
       /\ result.transcript = Some(<<>>)
       /\ t.transcript_text # NULL
       /\ t.transcript_json # NULL

\* ------------------------------------------------------ claims: the engine

IsCall(e) == e.ev = "call"

IsSleep(e) == e.ev = "sleep"

\* The provider calls of the engine call, in order
Calls == SelectSeq(log, IsCall)

\* The sleeps of the engine call, in order
Sleeps == SelectSeq(log, IsSleep)

LastCall == Calls[Len(Calls)]

\* The engine has returned
Returned == pc = "persist"

Max(a, b) == IF a >= b THEN a ELSE b

\* The status the spec gives each structural condition
StructuralStatus(cls) ==
    CASE cls = "TranscriptsDisabled" -> "disabled"
      [] cls = "VideoUnavailable" -> "unavailable"
      [] cls \in NotFoundErrors -> "not_found"

\* A structural condition ends the engine call on the spot: the call that raised it is
\* the last entry of the log (no later call, no sleep) and the status is its own
StructuralEndsTheCall ==
    \A k \in 1..Len(log) :
       (IsCall(log[k]) /\ log[k].outcome \in StructuralErrors)
       => /\ k = Len(log)
          /\ Returned
          /\ result.status = StructuralStatus(log[k].outcome)
          /\ result.error_message = log[k].msg
          /\ result.language = NULL
          /\ result.transcript = NULL

\* Every call the engine made raised the disabled condition
OnlyDisabledRaised == \A k \in 1..Len(Calls) : Calls[k].outcome = "TranscriptsDisabled"

OnlyTransientRaised == \A k \in 1..Len(Calls) : Calls[k].outcome \in TransientErrors

\* C4: when every attempt raises a transient condition and max_retries = n >= 1, the
\* engine returns after n calls and n-1 backoff sleeps: the log is call 0, sleep
\* retry_delay * 2^0, call 1, sleep retry_delay * 2^1, ..., call n-1, with no sleep
\* after the last call, and the status is ERROR or RATE_LIMITED.
C4_BackoffSchedule ==
    (Returned /\ cfg.max_retries >= 1 /\ OnlyTransientRaised)
    => /\ Len(Calls) = cfg.max_retries
       /\ Len(Sleeps) = cfg.max_retries - 1
       /\ Len(log) = 2 * cfg.max_retries - 1
       /\ \A k \in 0..(cfg.max_retries - 1) :
             /\ IsCall(log[2 * k + 1])
             /\ log[2 * k + 1].attempt = k
             /\ k < cfg.max_retries - 1
                => log[2 * k + 2] = Slept("backoff", cfg.retry_delay * 2^k)
       /\ result.status \in {"error", "rate_limited"}

\* max_retries = 3, retry_delay = 2, a mix of the two transient kinds: sleeps 2 then 4
C4_Witness ==
    /\ Returned
    /\ cfg.max_retries = 3
    /\ cfg.retry_delay = 2
    /\ Len(Calls) = 3
    /\ Calls[1].outcome = "Exception"
    /\ Calls[2].outcome = "TooManyRequests"
    /\ Calls[3].outcome = "Exception"
    /\ Sleeps = <<Slept("backoff", 2), Slept("backoff", 4)>>
    /\ result.status = "error"

\* C5 as stated: one engine call makes at most max_retries provider calls.
C5_AsStated == Returned => Len(Calls) <= cfg.max_retries

\* C5 amended: whatever the provider does, one engine call makes at most
\* max(max_retries, 0) provider calls (a negative max_retries gives 0 calls), each pass
\* of the loop returns or moves to the next index below max_retries, and the call
\* ends by returning a FetchResult for the identifier with one of the six statuses.
C5_BoundedAttempts ==
    /\ [](Len(Calls) <= Max(cfg.max_retries, 0))
    /\ [][pc = "fetch" => \/ pc' = "persist"
                          \/ attempt' = attempt + 1 /\ attempt' < cfg.max_retries]_vars
    /\ <>(Returned /\ result.status \in FetchStatus /\ result.video_id = video_ids[i])

\* The bound is met: max_retries calls, all failed
C5_Witness ==
    /\ Returned
    /\ cfg.max_retries = MaxRetriesBound
    /\ Len(Calls) = MaxRetriesBound
    /\ result.status = "rate_limited"

\* C6: no exception of the provider leaves the engine: nothing reaches the top level,
\* after a raised call the engine has either slept to retry or returned, what it
\* returns is a FetchResult for the identifier with one of the six statuses, and when
\* the last attempt raised an exception of no known type the result is ERROR with that
\* exception's str() as error_message.
C6_NoExceptionEscapes ==
    /\ fatal = NULL
    /\ pc \in {"fetch", "persist"}
    /\ (pc = "fetch" /\ log # <<>>) => IsSleep(log[Len(log)]) /\ log[Len(log)].kind = "backoff"
    /\ Returned => result.status \in FetchStatus /\ result.video_id = video_ids[i]
    /\ (Returned /\ Calls # <<>> /\ LastCall.outcome = "Exception")
       => result.status = "error" /\ result.error_message = LastCall.msg

\* Three unknown exceptions, the last with another text than the first
C6_Witness ==
    /\ Returned
    /\ Len(Calls) = 3
    /\ \A k \in 1..3 : Calls[k].outcome = "Exception"
    /\ Calls[1].msg = Some("e1")
    /\ Calls[3].msg = Some("e2")
    /\ result.status = "error"
    /\ result.error_message = Some("e2")

\* C7: when the last attempt of an engine call failed on a transient condition, the
\* status is RATE_LIMITED if that attempt was rate-limited and ERROR otherwise, and
\* error_message is that attempt's error text.
C7_LastFailureDecides ==
    (Returned /\ Calls # <<>> /\ LastCall.outcome \in TransientErrors)
    => /\ result.status = (IF LastCall.outcome = "TooManyRequests" THEN "rate_limited" ELSE "error")
       /\ result.error_message = LastCall.msg
       /\ result.language = NULL
       /\ result.transcript = NULL

\* An unknown error "e1", then a rate limit "e2": RATE_LIMITED with "e2"
C7_Witness ==
    /\ Returned
    /\ Len(Calls) = 2
    /\ Calls[1].outcome = "Exception"
    /\ Calls[1].msg = Some("e1")
    /\ Calls[2].outcome = "TooManyRequests"
    /\ Calls[2].msg = Some("e2")
    /\ result.status = "rate_limited"
    /\ result.error_message = Some("e2")

IsPacing(e) == e.ev = "sleep" /\ e.kind = "pacing"

\* C8: a provider call that returns segments is the last call of the engine call; it
\* is followed by one pacing sleep of sleep_seconds, the only pacing sleep and the last
\* entry of the log, and the engine returns SUCCESS with the language and the segments
\* of that call and no error_message, whatever failed before.
C8_SuccessAfterRetries ==
    \A k \in 1..Len(log) :
       (IsCall(log[k]) /\ log[k].outcome = "ok")
       => /\ Returned
          /\ k = Len(log) - 1
          /\ log[Len(log)] = Slept("pacing", cfg.sleep_seconds)
          /\ Len(SelectSeq(log, IsPacing)) = 1
          /\ log[k].attempt < cfg.max_retries
          /\ result = FetchResult(video_ids[i], "success", log[k].language, log[k].segments, NULL)

\* Success on the third attempt, after an unknown error and a rate limit
C8_Witness ==
    /\ Returned
    /\ Len(Calls) = 3
    /\ Calls[1].outcome = "Exception"
    /\ Calls[2].outcome = "TooManyRequests"
    /\ Calls[3].outcome = "ok"
    /\ Len(Sleeps) = 3
    /\ result.status = "success"
    /\ result.language = Some("es")
    /\ result.transcript = Some(<<Segment(<<"h", "i">>)>>)
    /\ result.error_message = NULL

\* -------------------------------------------------------- claims: the runs

\* The positions of video_ids whose outcome this run has committed
CommittedPositions ==
    IF pc \in {"summary", "done"} THEN 1..Len(video_ids) ELSE 1..(i - 1)

\* C9: no video id has more than one row, committed or not; an identifier the run has
\* selected has no row until its outcome is written, and once the run has committed
\* it there is exactly one row for it, with fetch_attempts = 1.
C9_OneRecordAfterOneRun ==
    /\ \A v \in VideoIds :
          Cardinality(RowsOf(store, v)) <= 1 /\ Cardinality(RowsOf(db, v)) <= 1
    /\ \A k \in 1..Len(video_ids) :
          IF k \in CommittedPositions
          THEN \E t \in store : RowsOf(store, video_ids[k]) = {t} /\ t.fetch_attempts = 1
          ELSE RowsOf(store, video_ids[k]) = {}

\* A finished run over two identifiers: one success, one failure after three attempts
C9_Witness ==
    /\ pc = "done"
    /\ cfg.max_retries = 3
    /\ Len(video_ids) = 2
    /\ stats["success"] = 1
    /\ stats["rate_limited"] = 1
    /\ \A k \in 1..2 : \E t \in store : RowsOf(store, video_ids[k]) = {t} /\ t.fetch_attempts = 1

\* -------------------------------------------------- claims: the selections

InSeq(x, seq) == \E k \in 1..Len(seq) : seq[k] = x

Min(a, b) == IF a < b THEN a ELSE b

\* The video ids of a list of (video_id, attempts)
IdsOf(pairs) == [k \in 1..Len(pairs) |-> pairs[k][1]]

\* The identifiers a call of a selection returned
QueriedIds(q) == IF q.fn = "fetch_failed_video_ids" THEN IdsOf(q.result) ELSE q.result

\* RATE_LIMITED and ERROR
TransientStatuses == {"rate_limited", "error"}

\* C11 (as stated): the batch a run selects holds every identifier whose record is
\* RATE_LIMITED or ERROR with fetch_attempts below the ceiling, unless the batch is
\* full: such an identifier is attempted again by the run.
C11_AsStated ==
    [][pc = "select"
       => \A t \in db :
             (t.fetch_status \in TransientStatuses /\ t.fetch_attempts < DefaultMaxAttempts)
             => InSeq(t.video_id, video_ids') \/ Len(video_ids') >= cfg.batch_limit]_vars

\* C12: whatever the limit and the ceiling, neither fetch_pending_video_ids nor
\* fetch_failed_video_ids returns an identifier whose stored status is DISABLED or
\* UNAVAILABLE.
C12_NeverPermanent ==
    \A n \in 1..Len(hist) :
       \A t \in store :
          t.fetch_status \in {"disabled", "unavailable"}
          => ~InSeq(t.video_id, QueriedIds(hist[n]))

\* A DISABLED row with no content and one attempt is left out of a selection that
\* returns the row written after it
C12_Witness ==
    \E t, u \in store :
       /\ t.fetch_status = "disabled" /\ t.transcript_text = NULL /\ t.fetch_attempts = 1
       /\ u.fetch_status = "rate_limited" /\ u.fetched_at > t.fetched_at
       /\ hist = <<Queried("fetch_failed_video_ids", NumVideos + 1, Some(DefaultMaxAttempts),
                           <<<<u.video_id, 1>>>>)>>

\* The identifiers with a NOT_FOUND row that a selection of fetch_failed_video_ids holds
NotFoundReturned(limit, max_attempts) ==
    {t.video_id : t \in {u \in store : /\ u.fetch_status = "not_found"
                                       /\ InSeq(u.video_id, IdsOf(fetch_failed_video_ids(store, limit, max_attempts)))}}

\* A run selects no identifier that has a NOT_FOUND row
NotFoundNeverSelected ==
    [][pc = "select" => \A t \in store : t.fetch_status = "not_found" => ~InSeq(t.video_id, video_ids')]_vars

\* C13 (as stated): fetch_failed_video_ids never returns an identifier whose stored
\* status is NOT_FOUND, and no later run attempts it again.
C13_AsStated ==
    /\ [](\A limit \in QueryLimits, max_attempts \in QueryCeilings : NotFoundReturned(limit, max_attempts) = {})
    /\ NotFoundNeverSelected

\* C13 (amended): fetch_failed_video_ids, asked without a truncating limit, returns an
\* identifier whose stored status is NOT_FOUND exactly when its transcript_text is null
\* and its fetch_attempts is below the ceiling; no later run attempts it again.
C13_NotFoundIsRetryEligible ==
    /\ [](\A max_attempts \in QueryCeilings :
             NotFoundReturned(NumVideos + 1, max_attempts)
             = {t.video_id : t \in {u \in store : /\ u.fetch_status = "not_found"
                                                  /\ u.transcript_text = NULL
                                                  /\ u.fetch_attempts < max_attempts}})
    /\ NotFoundNeverSelected

\* A later run has found nothing pending while the NOT_FOUND identifier of the first
\* run is what fetch_failed_video_ids returns
C13_Witness ==
    /\ pc = "done"
    /\ hist = <<Selected(<<>>)>>
    /\ \E t \in store :
          /\ t.fetch_status = "not_found"
          /\ fetch_failed_video_ids(store, 1, DefaultMaxAttempts) = <<<<t.video_id, 1>>>>

ScrapedAt(video_id) == (CHOOSE v \in Catalog : v.video_id = video_id).scraped_at

\* ids is the list of the catalog identifiers without a row, most recently scraped
\* first, cut after limit entries
IsPendingSelection(ids, rows, limit) ==
    LET pending == {v.video_id : v \in {c \in Catalog : RowsOf(rows, c.video_id) = {}}}
    IN  /\ \A k \in 1..Len(ids) : ids[k] \in pending
        /\ \A j, k \in 1..Len(ids) : j < k => ScrapedAt(ids[j]) > ScrapedAt(ids[k])
        /\ Len(ids) = Min(limit, Cardinality(pending))
        /\ \A v \in pending : ~InSeq(v, ids) => \A k \in 1..Len(ids) : ScrapedAt(ids[k]) > ScrapedAt(v)

\* C14: fetch_pending_video_ids(limit) returns the catalog identifiers that have no
\* row, most recently scraped first, each once, cut to the first limit of that order,
\* and all of them when the limit is larger than their number; so for every limit,
\* and so for the batch every run selects.
C14_PendingSelection ==
    /\ [](\A limit \in QueryLimits : IsPendingSelection(fetch_pending_video_ids(db, limit), db, limit))
    /\ [][pc = "select" => IsPendingSelection(video_ids', db, cfg.batch_limit)]_vars

\* A run with batch limit 1 has selected the most recently scraped of two pending
\* identifiers
C14_Witness ==
    /\ pc = "fetch"
    /\ cfg.batch_limit = 1
    /\ db = {}
    /\ hist = <<Selected(<<"v2">>), Fetched("v2")>>
    /\ video_ids = <<"v2">>
    /\ fetch_pending_video_ids(db, NumVideos + 1) = <<"v2", "v1">>

\* The rows of the entries of a selection of fetch_failed_video_ids
RowOf(rows, video_id) == CHOOSE t \in rows : t.video_id = video_id

\* failed is a list of (video_id, attempts) of rows that pass keep, oldest
\* fetched_at first, cut after limit entries
IsFailedSelection(failed, rows, limit, Keep(_)) ==
    LET kept == {t \in rows : Keep(t)}
    IN  /\ \A k \in 1..Len(failed) :
              \E t \in kept : failed[k] = <<t.video_id, t.fetch_attempts>>
        /\ \A j, k \in 1..Len(failed) :
              j < k => RowOf(rows, failed[j][1]).fetched_at < RowOf(rows, failed[k][1]).fetched_at
        /\ Len(failed) = Min(limit, Cardinality(kept))
        /\ \A t \in kept :
              ~InSeq(t.video_id, IdsOf(failed))
              => \A k \in 1..Len(failed) : RowOf(rows, failed[k][1]).fetched_at < t.fetched_at

\* No identifier is in both selections
Disjoint(failed, pending) == \A k \in 1..Len(failed) : ~InSeq(failed[k][1], pending)

\* C15 (as stated): fetch_failed_video_ids returns only rows whose status is
\* RATE_LIMITED or ERROR and whose fetch_attempts is below the ceiling, oldest
\* fetched_at first, and none that fetch_pending_video_ids returns.
C15_AsStated ==
    \A n \in 1..Len(hist) :
       hist[n].fn = "fetch_failed_video_ids"
       => LET failed == hist[n].result
              Keep(t) == t.fetch_status \in TransientStatuses /\ t.fetch_attempts < hist[n].max_attempts[1]
          IN  /\ \A k \in 1..Len(failed) :
                    \E t \in store : Keep(t) /\ failed[k] = <<t.video_id, t.fetch_attempts>>
              /\ \A j, k \in 1..Len(failed) :
                    j < k => RowOf(store, failed[j][1]).fetched_at < RowOf(store, failed[k][1]).fetched_at
              /\ Disjoint(failed, fetch_pending_video_ids(store, NumVideos + 1))

\* C15 (amended): fetch_failed_video_ids returns the rows with a null transcript_text
\* whose status is neither DISABLED nor UNAVAILABLE (RATE_LIMITED, ERROR, and also
\* NOT_FOUND and a SUCCESS without content) and whose fetch_attempts is below the
\* ceiling, never one at the ceiling, oldest fetched_at first, cut after limit
\* entries, and none that fetch_pending_video_ids returns.
C15_FailedSelection ==
    \A n \in 1..Len(hist) :
       hist[n].fn = "fetch_failed_video_ids"
       => LET failed == hist[n].result
              Keep(t) == /\ t.transcript_text = NULL
                         /\ t.fetch_status \in FetchStatus \ {"disabled", "unavailable"}
                         /\ t.fetch_attempts < hist[n].max_attempts[1]
          IN  /\ IsFailedSelection(failed, store, hist[n].limit, Keep)
              /\ \A k \in 1..Len(failed) : failed[k][2] # hist[n].max_attempts[1]
              /\ Disjoint(failed, fetch_pending_video_ids(store, NumVideos + 1))

\* Two rows without content, the older written twice: asked with the ceiling above
\* both, the selection has returned both, the older first (with a ceiling equal to
\* the older's fetch_attempts it would return the other alone)
C15_Witness ==
    \E t, u \in store :
       /\ t.fetch_status = "error" /\ t.fetch_attempts = DefaultMaxAttempts - 1
       /\ u.fetch_status = "rate_limited" /\ u.fetch_attempts = 1
       /\ hist = <<Queried("fetch_failed_video_ids", NumVideos + 1, Some(DefaultMaxAttempts),
                           <<<<t.video_id, t.fetch_attempts>>, <<u.video_id, 1>>>>)>>
       /\ fetch_failed_video_ids(store, NumVideos + 1, t.fetch_attempts) = <<<<u.video_id, 1>>>>

\* ------------------------------------------- claims: one run, step by step

IsFetched(e) == e.ev = "fetch"

IsWritten(e) == e.ev = "write"

IsCommitted(e) == e.ev = "commit"

IsSummarised(e) == e.ev = "summary"

\* The video ids of a list of fetch, write or commit entries
EventIds(events) == [k \in 1..Len(events) |-> events[k].video_id]

\* What the run has selected, and the identifiers it has called the engine for,
\* written and committed, in the order it did
RunSelected == IF hist = <<>> THEN <<>> ELSE hist[1].video_ids

RunFetched == EventIds(SelectSeq(hist, IsFetched))

RunWrites == SelectSeq(hist, IsWritten)

RunWritten == EventIds(RunWrites)

RunCommitted == EventIds(SelectSeq(hist, IsCommitted))

IsPrefix(s, t) == Len(s) <= Len(t) /\ s = SubSeq(t, 1, Len(s))

\* The positions of the selected list whose identifier has a committed row
DurablePositions == {k \in 1..Len(RunSelected) : RowsOf(store, RunSelected[k]) # {}}

\* C16: at every point of a run, a kill or a store failure at any point included,
\* the selected identifiers with a committed row are the first m of the selected
\* list, committed one by one in that order, and at most one identifier the engine
\* was called for is not among them.
C16_CommittedPrefix ==
    LET m == Cardinality(DurablePositions)
    IN  /\ DurablePositions = 1..m
        /\ RunCommitted = SubSeq(RunSelected, 1, m)
        /\ IsPrefix(RunFetched, RunSelected)
        /\ Len(RunFetched) - m <= 1
        /\ \A j, k \in DurablePositions :
              j < k => RowOf(store, RunSelected[j]).fetched_at < RowOf(store, RunSelected[k]).fetched_at

\* The process was killed with the second of two identifiers written and not
\* committed: the first is durable, the second is not
C16_Witness ==
    /\ pc = "killed"
    /\ Len(RunSelected) = 2
    /\ Len(RunWritten) = 2
    /\ Len(RunCommitted) = 1
    /\ RowsOf(store, RunSelected[1]) # {}
    /\ RowsOf(store, RunSelected[2]) = {}

\* C17: from the engine call for an identifier to its commit no step changes the
\* committed rows, nor does the step that ends the process before the commit: after
\* such an end the identifier still has no committed row, and every other row is as
\* it was.
C17_CrashBeforeCommit ==
    /\ [][(pc \in {"fetch", "persist"} \/ (pc = "commit" /\ pc' \in {"killed", "exit1"}))
          => store' = store]_vars
    /\ [](pc \in {"killed", "exit1"}
          => \A k \in 1..Len(RunFetched) :
                k > Len(RunCommitted) => RowsOf(store, RunFetched[k]) = {})

\* Killed after the write of the second identifier: the row of the first is there,
\* the second has none
C17_Witness ==
    /\ pc = "killed"
    /\ hist # <<>>
    /\ IsWritten(hist[Len(hist)])
    /\ RowsOf(store, hist[Len(hist)].video_id) = {}
    /\ store # {}
    /\ db = store

\* C18: what a run does after the selection is, for the selected identifiers in list
\* order, one engine call, one write and one commit each, and then the summary:
\* nothing is fetched or written twice, and no identifier has been written more than
\* once.
C18_OncePerRun ==
    /\ \A j, k \in 1..Len(RunSelected) : j # k => RunSelected[j] # RunSelected[k]
    /\ \A n \in 2..Len(hist) :
          IF n <= 3 * Len(RunSelected) + 1
          THEN /\ hist[n].ev = <<"fetch", "write", "commit">>[((n - 2) % 3) + 1]
               /\ hist[n].video_id = RunSelected[((n - 2) \div 3) + 1]
          ELSE n = 3 * Len(RunSelected) + 2 /\ IsSummarised(hist[n])
    /\ pc \in {"summary", "done"} => RunFetched = RunSelected /\ RunWritten = RunSelected
    /\ \A k \in 1..Len(RunWritten) : writes[RunWritten[k]] = 1

\* A finished run over two identifiers: fetch, write, commit for each, the summary
C18_Witness ==
    /\ pc = "done"
    /\ Len(RunSelected) = 2
    /\ Len(hist) = 8
    /\ RunFetched = RunSelected
    /\ RunWritten = RunSelected
    /\ RunCommitted = RunSelected

\* " ".join of the segment texts
SpaceJoined(transcript) == Join(<<" ">>, SegTexts(transcript))

\* transcript_text as the claim has it
TextAsStated(r) == IF r.status = "success" THEN Some(SpaceJoined(r.transcript[1])) ELSE NULL

\* transcript_text as stored: stripped, and null for a SUCCESS with no segment
TextAsStored(r) ==
    IF r.status = "success" /\ r.transcript[1] # <<>>
    THEN Some(Strip(SpaceJoined(r.transcript[1])))
    ELSE NULL

\* Every identifier the run has committed has one row, with the status of the
\* engine's outcome for it, the transcript_text Text gives and fetch_attempts 1
RunRecords(Text(_)) ==
    \A k \in 1..Len(RunCommitted) :
       LET r == RunWrites[k].result
       IN  /\ r.video_id = RunSelected[k]
           /\ \E t \in store :
                 /\ RowsOf(store, RunSelected[k]) = {t}
                 /\ t.fetch_status = r.status
                 /\ t.transcript_text = Text(r)
                 /\ t.fetch_attempts = 1

RECURSIVE SumOf(_, _)
SumOf(counts, S) ==
    IF S = {} THEN 0
    ELSE LET s == CHOOSE x \in S : TRUE IN counts[s] + SumOf(counts, S \ {s})

\* The summary has a line for each status with a committed row of this run and no
\* other, with the number of those rows; the numbers add up to the selected
SummaryCounts ==
    (hist # <<>> /\ IsSummarised(hist[Len(hist)]))
    => LET counts == hist[Len(hist)].counts
           committed(s) == {k \in 1..Len(RunSelected) :
                              \E t \in RowsOf(store, RunSelected[k]) : t.fetch_status = s}
       IN  /\ DOMAIN counts = {s \in FetchStatus : committed(s) # {}}
           /\ \A s \in DOMAIN counts : counts[s] = Cardinality(committed(s))
           /\ SumOf(counts, DOMAIN counts) = Len(RunSelected)

\* C19 (as stated): the record of each committed identifier carries the status of
\* its engine outcome, the space-joined segment texts on SUCCESS and null otherwise,
\* fetch_attempts 1; the summary counts the committed per status.
C19_AsStated == RunRecords(TextAsStated) /\ SummaryCounts

\* C19 (amended): the record of each committed identifier carries the status of its
\* engine outcome, fetch_attempts 1, and as transcript_text the space-joined segment
\* texts with leading and trailing whitespace stripped on a SUCCESS with at least one
\* segment, null on a SUCCESS with no segment and on failure; the summary counts the
\* committed per status, the counts adding up to the number selected.
C19_EndToEnd == RunRecords(TextAsStored) /\ SummaryCounts

\* The scenario of the spec: v1 succeeds with "hi", v2 is unavailable
C19_Witness ==
    /\ pc = "done"
    /\ Len(RunSelected) = 2
    /\ hist[Len(hist)] = Summarised([s \in {"success", "unavailable"} |-> 1])
    /\ \E t \in store : t.video_id = "v1" /\ t.fetch_status = "success"
                        /\ t.transcript_text = Some(<<"h", "i">>) /\ t.fetch_attempts = 1
    /\ \E t \in store : t.video_id = "v2" /\ t.fetch_status = "unavailable"
                        /\ t.transcript_text = NULL /\ t.fetch_attempts = 1

\* After the fatal error of a store failure the process has exited with status 1:
\* no summary, the engine called for the first k selected and no other, the first
\* k - 1 committed and in the store, the others without a row; an ended process
\* does nothing more
StoreFailureEndsRun ==
    /\ [](fatal # NULL => pc = "exit1")
    /\ [](pc = "exit1"
          => /\ fatal # NULL
             /\ SelectSeq(hist, IsSummarised) = <<>>
             /\ IsPrefix(RunFetched, RunSelected)
             /\ IsPrefix(RunWritten, RunFetched)
             /\ hist # <<>> => /\ Len(RunCommitted) = Len(RunFetched) - 1
                               /\ DurablePositions = 1..Len(RunCommitted)
                               /\ RunRecords(TextAsStored))
    /\ [][(pc \in {"done", "exit1", "killed"}) => (pc' = "select" /\ hist' = <<>>)]_vars

RaisedUnknown(e) == IsCall(e) /\ e.outcome = "Exception"

\* C21 (as stated): after a provider call has raised a connection error the process
\* has ended with a fatal error: no outcome is returned for the identifier and
\* nothing more is fetched.
C21_AsStated ==
    \A k \in 1..Len(log) : RaisedUnknown(log[k]) => pc = "exit1" /\ fatal # NULL

\* C21 (amended): a connection error of the provider is caught as any exception of
\* no named type: the engine sleeps and retries while attempts are left, and when
\* the last attempt raised it the engine returns ERROR with the exception's text,
\* which main writes as the identifier's row; nothing reaches the top level and the
\* loop goes on to the next identifier.
C21_ConnectivityIsError ==
    /\ [](fatal = NULL /\ pc # "exit1")
    /\ []((pc = "fetch" /\ Calls # <<>> /\ RaisedUnknown(LastCall))
          => log[Len(log)] = Slept("backoff", BackoffDelay(cfg.retry_delay, LastCall.attempt)))
    /\ []((pc \in {"persist", "commit", "summary", "done"} /\ Calls # <<>> /\ RaisedUnknown(LastCall))
          => /\ result = FetchResult(video_ids[i], "error", NULL, NULL, LastCall.msg)
             /\ Len(Calls) = cfg.max_retries
             /\ pc # "persist"
                => \E t \in db : /\ RowsOf(db, video_ids[i]) = {t}
                                 /\ t.fetch_status = "error"
                                 /\ t.error_message = LastCall.msg
                                 /\ t.transcript_text = NULL)
    /\ [][(pc = "commit" /\ i < Len(video_ids)) => (pc' = "fetch" /\ i' = i + 1)]_vars

\* A finished run over two identifiers: the first is stored as ERROR with the text
\* of the exception, the second, fetched after it, as SUCCESS
C21_Witness ==
    /\ pc = "done"
    /\ Len(RunWrites) = 2
    /\ RunWrites[1].result.status = "error"
    /\ RunWrites[1].result.error_message = Some("e1")
    /\ RunWrites[2].result.status = "success"
    /\ \E t \in store : t.video_id = RunSelected[1] /\ t.fetch_status = "error"
                        /\ t.error_message = Some("e1")
    /\ \E t \in store : t.video_id = RunSelected[2] /\ t.fetch_status = "success"

\* ------------------------------------------------ claims: a row written again

\* C22: a write to a video id that has a row leaves one row whose language,
\* fetch_status and error_message are those of the written outcome, null or not;
\* when the outcome carries no transcript the stored content stays.
C22_UnconditionalReplace ==
    [][\A v \in VideoIds :
          (writes'[v] = writes[v] + 1 /\ RowsOf(store, v) # {})
          => \E t \in store' :
                /\ RowsOf(store', v) = {t}
                /\ t.language = result'.language
                /\ t.fetch_status = result'.status
                /\ t.error_message = result'.error_message
                /\ result'.transcript = NULL => ContentOf(store', v) = ContentOf(store, v)]_vars

\* DISABLED written over a stored transcript: the language is null, the status and
\* the message are the failure's, the text is still there
C22_Witness ==
    \E v \in VideoIds : \E t \in RowsOf(store, v) :
       /\ writes[v] = 2
       /\ result = FetchResult(v, "disabled", NULL, NULL, Some("e2"))
       /\ t.language = NULL
       /\ t.fetch_status = "disabled"
       /\ t.error_message = Some("e2")
       /\ t.transcript_text = Some(<<"a", " ", "b">>)

\* C23: when the SUCCESS outcome last written to a video id is written to it again,
\* the row's language, fetch_status, error_message, transcript_text and
\* transcript_json are after the second write what they were after the first;
\* fetch_attempts is one more and fetched_at is later.
C23_SuccessTwice ==
    [][\A v \in VideoIds :
          (/\ writes'[v] = writes[v] + 1
           /\ result.video_id = v
           /\ result.status = "success"
           /\ result' = result)
          => \E t \in store, u \in store' :
                /\ RowsOf(store, v) = {t}
                /\ RowsOf(store', v) = {u}
                /\ u.language = t.language
                /\ u.fetch_status = t.fetch_status
                /\ u.error_message = t.error_message
                /\ u.transcript_text = t.transcript_text
                /\ u.transcript_json = t.transcript_json
                /\ u.fetch_attempts = t.fetch_attempts + 1
                /\ u.fetched_at > t.fetched_at]_vars

\* A row written twice and no other, last by a SUCCESS in "es", holds that outcome
\* with fetch_attempts 2
C23_Witness ==
    \E v \in VideoIds : \E t \in RowsOf(store, v) :
       /\ writes[v] = 2
       /\ clock = 2
       /\ result = FetchResult(v, "success", Some("es"), Some(<<Segment(<<"h", "i">>)>>), NULL)
       /\ t.language = Some("es")
       /\ t.fetch_status = "success"
       /\ t.error_message = NULL
       /\ t.transcript_text = Some(<<"h", "i">>)
       /\ t.transcript_json = Some(<<Segment(<<"h", "i">>)>>)
       /\ t.fetch_attempts = 2
       /\ t.fetched_at = 2

\* ------------------------------------------------ claims: captured transcripts

\* C29: whatever the limit and the ceiling, neither fetch_pending_video_ids nor
\* fetch_failed_video_ids returns an identifier whose row holds a transcript_text,
\* whatever the row's status and fetch_attempts.
C29_CapturedNeverSelected ==
    \A n \in 1..Len(hist) :
       \A t \in store :
          t.transcript_text # NULL => ~InSeq(t.video_id, QueriedIds(hist[n]))

\* A row that kept its text under a later ERROR, with attempts below the ceiling,
\* is left out of a retry selection that returns the other row
C29_Witness ==
    \E t, u \in store :
       /\ t.fetch_status = "error" /\ t.transcript_text # NULL /\ t.fetch_attempts = 2
       /\ u.fetch_status = "error" /\ u.transcript_text = NULL
       /\ hist = <<Queried("fetch_failed_video_ids", NumVideos + 1, Some(DefaultMaxAttempts),
                           <<<<u.video_id, 1>>>>)>>

\* C27 (as stated): every row whose latest write was a SUCCESS (its fetch_status is
\* 'success') holds a transcript_text and a transcript_json; a SUCCESS with an
\* empty segment list leaves no 'success' row without content.
C27_AsStated ==
    \A t \in db \cup store :
       t.fetch_status = "success" => t.transcript_text # NULL /\ t.transcript_json # NULL

NeverTried(video_id) == FetchResult(video_id, "error", NULL, NULL, Some("Unknown error after retries"))

C25_EveryVideoGetsARow == <>[](\A v \in VideoIds : RowsOf(store, v) # {})

\* Every video has a row, the one most recently scraped an 'error' row written
\* before the 'success' row of another
C25_Witness ==
    /\ \A v \in VideoIds : RowsOf(store, v) # {}
    /\ \E t, u \in store :
          /\ t.fetch_status = "error" /\ u.fetch_status = "success"
          /\ t.fetched_at < u.fetched_at
          /\ \A v \in VideoIds : ScrapedAt(v) <= ScrapedAt(t.video_id)

\* ------------------------------------ the simple worker (ingest_youtube_transcripts.py)

\* Number of runs of the simple worker that one history holds.
MaxRuns == 2

\* TRANSCRIPT_BATCH_LIMIT and TRANSCRIPT_SLEEP_SECONDS, all the simple worker reads
IngestConfigs == [batch_limit : BatchLimitValues, sleep_seconds : SleepSecondsValues]

\* The same query as fetch_pending_video_ids of fetch_transcripts.py
ingest_fetch_pending_video_ids(rows, limit) ==
    LET pending == {v \in Catalog : RowsOf(rows, v.video_id) = {}}
        ordered == Limit(OrderByScrapedAtDesc(pending), limit)
    IN  [k \in 1..Len(ordered) |-> ordered[k].video_id]

\* The value of a column that the INSERT does not name (the schema sets it)
ColumnDefault == "default"

\* on conflict (video_id) do update set language, transcript_text, transcript_json =
\* excluded's, fetched_at = now()
IngestConflictUpdate(t, excluded, now) ==
    [t EXCEPT !.language = excluded.language,
              !.transcript_text = excluded.transcript_text,
              !.transcript_json = excluded.transcript_json,
              !.fetched_at = now]

\* upsert_transcript of the simple worker: the text is joined and stripped whatever
\* the list is, and the four named columns are inserted
ingest_upsert_transcript(rows, video_id, language, transcript, now) ==
    LET excluded == Row(video_id, language, Some(Strip(Join(<<" ">>, SegTexts(transcript)))),
                        Some(Json(transcript)), ColumnDefault, ColumnDefault, ColumnDefault,
                        ColumnDefault)
        conflict == RowsOf(rows, video_id)
    IN  IF conflict = {} THEN rows \cup {excluded}
        ELSE (rows \ conflict) \cup {IngestConflictUpdate(t, excluded, now) : t \in conflict}

\* The sleeps of the simple worker, in half seconds
SleptHalves(kind, halves) == [ev |-> "sleep", kind |-> kind, halves |-> halves]

\* print(f"[transcripts] video_id={video_id} error={e}")
Failed(video_id) == [ev |-> "error", video_id |-> video_id]

\* What api.fetch can raise: every exception is caught alike
ProviderErrors == StructuralErrors \cup TransientErrors

\* The number of runs the history holds
Runs == Len(SelectSeq(hist, LAMBDA e : e.ev = "select"))

InitIngest ==
    /\ cfg \in IngestConfigs
    /\ pc = "select"
    /\ video_ids = <<>>
    /\ i = 0
    /\ attempt = 0
    /\ last_error = NULL
    /\ log = <<>>
    /\ result = NULL
    /\ stats = ZeroStats
    /\ db = {}
    /\ store = {}
    /\ writes = [v \in VideoIds |-> 0]
    /\ clock = 0
    /\ fatal = NULL
    /\ hist = <<>>

\* video_ids = fetch_pending_video_ids(conn, limit); print pending; the for loop starts
IngestSelect ==
    /\ pc = "select"
    /\ video_ids' = ingest_fetch_pending_video_ids(db, cfg.batch_limit)
    /\ IF video_ids' = <<>>
       THEN /\ pc' = "done" /\ i' = 0
            /\ hist' = hist \o <<Selected(video_ids')>>
       ELSE /\ pc' = "fetch" /\ i' = 1
            /\ hist' = hist \o <<Selected(video_ids'), Fetched(video_ids'[1])>>
    /\ UNCHANGED <<cfg, attempt, last_error, log, result, stats, db, store, writes, clock, fatal>>

\* The for loop of main goes to its next video_id, or ends (finally: conn.close())
IngestNextItem(events) ==
    IF i < Len(video_ids)
    THEN /\ pc' = "fetch" /\ i' = i + 1
         /\ hist' = hist \o events \o <<Fetched(video_ids[i + 1])>>
    ELSE /\ pc' = "done" /\ i' = i
         /\ hist' = hist \o events

\* get_transcript_safe: api.fetch returns; sleep(sleep_seconds); the dict is returned
GetTranscriptReturns ==
    /\ pc = "fetch"
    /\ \E language_code \in LanguageCodes, transcript \in Transcripts :
          /\ log' = <<CallReturned(0, language_code, transcript),
                      SleptHalves("pacing", 2 * cfg.sleep_seconds)>>
          /\ result' = Some([language |-> language_code, transcript |-> transcript])
    /\ pc' = "persist"
    /\ UNCHANGED <<cfg, video_ids, i, attempt, last_error, stats, db, store, writes, clock, fatal, hist>>

\* Faulty variant: the failure is stored as a row without content
GetTranscriptRaisesRecorded ==
    /\ pc = "fetch"
    /\ \E cls \in ProviderErrors, msg \in Msgs :
          log' = <<CallRaised(0, cls, msg),
                   SleptHalves("failure", Max(1, 2 * cfg.sleep_seconds))>>
    /\ result' = NULL
    /\ db' = db \cup {Row(video_ids[i], NULL, NULL, NULL, ColumnDefault, ColumnDefault, ColumnDefault, ColumnDefault)}
    /\ store' = db'
    /\ IngestNextItem(<<Failed(video_ids[i])>>)
    /\ UNCHANGED <<cfg, video_ids, attempt, last_error, stats, writes, clock, fatal>>

\* get_transcript_safe: api.fetch raises; the error is printed, sleep(max(0.5,
\* sleep_seconds)), None is returned and main goes on with the next video_id
GetTranscriptRaises ==
    /\ pc = "fetch"
    /\ \E cls \in ProviderErrors, msg \in Msgs :
          log' = <<CallRaised(0, cls, msg),
                   SleptHalves("failure", Max(1, 2 * cfg.sleep_seconds))>>
    /\ result' = NULL
    /\ IngestNextItem(<<Failed(video_ids[i])>>)
    /\ UNCHANGED <<cfg, video_ids, attempt, last_error, stats, db, store, writes, clock, fatal>>

\* upsert_transcript(conn, video_id, result["language"], result["transcript"])
IngestPersist ==
    /\ pc = "persist"
    /\ db' = ingest_upsert_transcript(db, video_ids[i], Some(result[1].language),
                                      result[1].transcript, clock + 1)
    /\ clock' = clock + 1
    /\ writes' = [writes EXCEPT ![video_ids[i]] = @ + 1]
    /\ pc' = "commit"
    /\ hist' = hist \o <<Written([video_id |-> video_ids[i], language |-> result[1].language,
                                  transcript |-> result[1].transcript])>>
    /\ UNCHANGED <<cfg, video_ids, i, attempt, last_error, log, result, stats, store, fatal>>

\* conn.commit(); print saved; the next video_id
IngestCommit ==
    /\ pc = "commit"
    /\ store' = db
    /\ IngestNextItem(<<Committed(video_ids[i])>>)
    /\ UNCHANGED <<cfg, video_ids, attempt, last_error, log, result, stats, db, writes, clock, fatal>>

\* The simple worker is started again: a new process, a new connection
IngestRestart ==
    /\ pc = "done"
    /\ Runs < MaxRuns
    /\ cfg' \in IngestConfigs
    /\ pc' = "select"
    /\ video_ids' = <<>>
    /\ i' = 0
    /\ log' = <<>>
    /\ result' = NULL
    /\ db' = store
    /\ UNCHANGED <<attempt, last_error, stats, store, writes, clock, fatal, hist>>

NextIngest ==
    \/ IngestSelect
    \/ GetTranscriptReturns
    \/ GetTranscriptRaises
    \/ IngestPersist
    \/ IngestCommit
    \/ IngestRestart

SpecIngest == InitIngest /\ [][NextIngest]_vars

\* ------------------------------------------------ claims: the simple worker

\* The selection of the run that the k-th entry of the history belongs to
SelectionOf(k) ==
    LET j == CHOOSE j \in 1..k : hist[j].ev = "select" /\ \A m \in (j + 1)..k : hist[m].ev # "select"
    IN  hist[j].video_ids

\* C26: in the simple worker a fetch that fails has made one provider call and
\* leaves the rows as they were; rows change only by the write that follows a
\* fetch that returned; and a run selects again every identifier that failed in an
\* earlier run and has no row, when its batch limit is not below the size of that
\* earlier selection.
C26_FailureLeavesPending ==
    /\ [][(pc = "fetch" /\ pc' # "persist")
          => /\ Len(SelectSeq(log', IsCall)) = 1
             /\ log'[1].outcome # "ok"
             /\ result' = NULL
             /\ hist'[Len(hist) + 1] = Failed(video_ids[i])
             /\ UNCHANGED <<db, store, writes>>]_vars
    /\ [][db' # db
          => /\ pc = "persist"
             /\ log[1].outcome = "ok"
             /\ \E t \in db' : db' = db \cup {t} /\ t.video_id = video_ids[i]
                                 /\ t.transcript_json = log[1].segments]_vars
    /\ [][store' # store => pc = "commit" /\ store' = db]_vars
    /\ [][(pc = "select")
          => \A k \in 1..Len(hist) :
                (/\ hist[k].ev = "error"
                 /\ RowsOf(store, hist[k].video_id) = {}
                 /\ cfg.batch_limit >= Len(SelectionOf(k)))
                => InSeq(hist[k].video_id, video_ids')]_vars
    /\ [](\A k \in 1..Len(hist) :
             hist[k].ev = "error" /\ writes[hist[k].video_id] = 0 => RowsOf(store, hist[k].video_id) = {})

\* Two runs with batch limit 1 have selected the same identifier and failed on it;
\* there is no row
C26_Witness ==
    \E v \in VideoIds :
       /\ hist = <<Selected(<<v>>), Fetched(v), Failed(v), Selected(<<v>>), Fetched(v), Failed(v)>>
       /\ pc = "done"
       /\ cfg.batch_limit = 1
       /\ store = {}
       /\ db = {}

\* ------------------------------------------- two workers on one store (main twice)

Workers == {1, 2}

\* The outcomes a concurrent worker's engine call ends with, as far as the row can
\* tell them apart: a transcript, an empty list, a failure
WorkerOutcomes(video_id) ==
    {r \in SelectorOutcomes(video_id) : r.status \in {"success", "error"}}

\* In this specification cfg, pc, video_ids, i, result, stats and db are one value per
\* worker; db[w] is the row version that w's open transaction has written and not
\* yet committed, store the committed rows that every statement reads
InitTwo ==
    /\ cfg \in [Workers -> [batch_limit : BatchLimitValues, sleep_seconds : {1}, max_retries : {3}, retry_delay : {2}]]
    /\ pc = [w \in Workers |-> "select"]
    /\ video_ids = [w \in Workers |-> <<>>]
    /\ i = [w \in Workers |-> 0]
    /\ attempt = 0
    /\ last_error = NULL
    /\ log = <<>>
    /\ result = [w \in Workers |-> NoResult]
    /\ stats = [w \in Workers |-> ZeroStats]
    /\ db = [w \in Workers |-> {}]
    /\ store = {}
    /\ writes = [v \in VideoIds |-> 0]
    /\ clock = 0
    /\ fatal = NULL
    /\ hist = <<>>

\* video_ids = fetch_pending_video_ids(conn, batch_limit), on the committed rows
WorkerSelect(w) ==
    /\ pc[w] = "select"
    /\ video_ids' = [video_ids EXCEPT ![w] = fetch_pending_video_ids(store, cfg[w].batch_limit)]
    /\ IF video_ids'[w] = <<>>
       THEN pc' = [pc EXCEPT ![w] = "done"] /\ i' = [i EXCEPT ![w] = 0]
       ELSE pc' = [pc EXCEPT ![w] = "fetch"] /\ i' = [i EXCEPT ![w] = 1]
    /\ UNCHANGED <<cfg, engine, stats, db, store, writes, clock, fatal, hist>>

\* result = fetch_transcript_with_retry(...): the engine call, which reads and writes
\* no row, as one step
WorkerFetch(w) ==
    /\ pc[w] = "fetch"
    /\ \E r \in WorkerOutcomes(video_ids[w][i[w]]) : result' = [result EXCEPT ![w] = r]
    /\ pc' = [pc EXCEPT ![w] = "persist"]
    /\ UNCHANGED <<cfg, video_ids, i, attempt, last_error, log, stats, db, store, writes, clock, fatal, hist>>

\* Faulty variant: the statement does not wait for the other transaction
RowLockIgnored(w, video_id) == video_id \in VideoIds

\* INSERT ... ON CONFLICT DO UPDATE waits while another transaction holds an
\* uncommitted version of the row
RowLockFree(w, video_id) == \A u \in Workers \ {w} : RowsOf(db[u], video_id) = {}

\* stats[result.status.value] += 1; upsert_transcript(...), atomic on the latest
\* committed row
WorkerPersist(w) ==
    /\ pc[w] = "persist"
    /\ RowLockFree(w, result[w].video_id)
    /\ stats' = [stats EXCEPT ![w][result[w].status] = @ + 1]
    /\ db' = [db EXCEPT ![w] =
                 RowsOf(upsert_transcript(store, result[w].video_id, result[w].language,
                                          result[w].transcript, result[w].status,
                                          result[w].error_message, DefaultAttemptCount, clock + 1),
                        result[w].video_id)]
    /\ clock' = clock + 1
    /\ writes' = [writes EXCEPT ![result[w].video_id] = @ + 1]
    /\ pc' = [pc EXCEPT ![w] = "commit"]
    /\ UNCHANGED <<cfg, video_ids, i, engine, store, fatal, hist>>

\* conn.commit(): the row version becomes the committed one; the next video_id of the
\* for loop, or the summary after the last
WorkerCommit(w) ==
    /\ pc[w] = "commit"
    /\ store' = (store \ RowsOf(store, result[w].video_id)) \cup db[w]
    /\ db' = [db EXCEPT ![w] = {}]
    /\ IF i[w] < Len(video_ids[w])
       THEN pc' = [pc EXCEPT ![w] = "fetch"] /\ i' = [i EXCEPT ![w] = @ + 1]
       ELSE pc' = [pc EXCEPT ![w] = "summary"] /\ i' = i
    /\ UNCHANGED <<cfg, video_ids, engine, stats, writes, clock, fatal, hist>>

\* The summary is logged, the connection closed, main returns
WorkerSummary(w) ==
    /\ pc[w] = "summary"
    /\ pc' = [pc EXCEPT ![w] = "done"]
    /\ UNCHANGED <<cfg, video_ids, i, engine, stats, db, store, writes, clock, fatal, hist>>

NextTwo ==
    \E w \in Workers :
       \/ WorkerSelect(w)
       \/ WorkerFetch(w)
       \/ WorkerPersist(w)
       \/ WorkerCommit(w)
       \/ WorkerSummary(w)

SpecTwo == InitTwo /\ [][NextTwo]_vars

\* ------------------------------------------------ claims: two workers

\* The writes to a video id that are committed: all of them but the open ones
CommittedWrites(v) == writes[v] - Cardinality({w \in Workers : RowsOf(db[w], v) # {}})

\* C30: with two workers running main on one store, in every interleaving a video
\* id has at most one committed row, a committed row that holds content holds
\* content after every step, and the committed row's fetch_attempts is the number
\* of committed writes to the id (no row when there is none).
C30_TwoWorkers ==
    /\ [](\A v \in VideoIds : Cardinality(RowsOf(store, v)) <= 1)
    /\ [](\A v \in VideoIds :
             IF CommittedWrites(v) = 0 THEN RowsOf(store, v) = {}
             ELSE \E t \in RowsOf(store, v) : t.fetch_attempts = CommittedWrites(v))
    /\ [][\A t \in store :
             /\ t.transcript_text # NULL
                => \E u \in RowsOf(store', t.video_id) : u.transcript_text # NULL
             /\ t.transcript_json # NULL
                => \E u \in RowsOf(store', t.video_id) : u.transcript_json # NULL]_vars

\* Both workers selected the whole catalog and have ended; a video whose first
\* committed write was a transcript and whose second was an ERROR has one row, with
\* the text and fetch_attempts 2
C30_Witness ==
    /\ \A w \in Workers : pc[w] = "done" /\ Len(video_ids[w]) = NumVideos
    /\ \E t \in store :
          /\ RowsOf(store, t.video_id) = {t}
          /\ t.fetch_attempts = 2
          /\ t.fetch_status = "error"
          /\ t.transcript_text = Some(<<"h", "i">>)
          /\ writes[t.video_id] = 2

====
